---- MODULE Spec2Model ----
(***************************************************************************)
(* Model of the erad2022 short-course book: the table of contents that     *)
(* orders the chapters, and a top-to-bottom run of the chapter             *)
(* notebooks/wradlib/wradlib_data_quality.ipynb.                           *)
(*                                                                         *)
(* Line numbers in comments are lines of the notebook's JSON file, or of   *)
(* the table of contents (toc) where stated.                               *)
(***************************************************************************)
EXTENDS Integers, Sequences, FiniteSets, TLC

(***************************************************************************)
(* Bounds of the model.                                                    *)
(***************************************************************************)
\* most files the glob of line 110 may match
MaxFiles == 4
\* distinct values of a sweep's start time (x.time.min(), line 141)
MaxTime == 2
\* bins of the (azimuth, range) grid the quality mask is evaluated on
NBins == 2
\* most chunks the array library may cut a dimension into
MaxChunks == 2

(***************************************************************************)
(* The table of contents (toc lines 1-46).                                 *)
(***************************************************************************)
Chapter(f, secs) == [file |-> f, sections |-> secs]

\* toc line 2
TocRoot == "README"

\* toc lines 4-8
PartIntro ==
  [caption |-> "Introductions + Overview",
   chapters |-> << Chapter("introductions/getting-started", << >>),
                   Chapter("introductions/open-science", << >>),
                   Chapter("introductions/open-radar", << >>) >>]

\* toc lines 11-18
ChapterPyart ==
  Chapter("pyart/README.md",
          << "notebooks/pyart/pyart-basics",
             "notebooks/pyart/pyart-gridding",
             "notebooks/pyart/exercice1_swiss_thunderstorm",
             "notebooks/pyart/exercice2_swiss_doppler",
             "notebooks/pyart/question_pyart_meteoswiss",
             "notebooks/pyart/answer_question_pyart_meteoswiss" >>)

\* the wradlib sections with two neighbours exchanged
ChapterWradlibSwapped ==
  Chapter("wradlib/README.md",
          << "notebooks/wradlib/wradlib_intro",
             "notebooks/wradlib/wradlib_radar_data_io_vis",
             "notebooks/wradlib/wradlib_data_quality",
             "notebooks/wradlib/wradlib_quasi_vertical_profiles",
             "notebooks/wradlib/wradlib_differential_phase" >>)

\* toc lines 19-25
ChapterWradlib ==
  Chapter("wradlib/README.md",
          << "notebooks/wradlib/wradlib_intro",
             "notebooks/wradlib/wradlib_radar_data_io_vis",
             "notebooks/wradlib/wradlib_data_quality",
             "notebooks/wradlib/wradlib_differential_phase",
             "notebooks/wradlib/wradlib_quasi_vertical_profiles" >>)

\* toc lines 26-32
ChapterBaltrad ==
  Chapter("baltrad/README.md",
          << "notebooks/baltrad_short_course/BALTRAD Compositing",
             "notebooks/baltrad_short_course/BALTRAD DRQC",
             "notebooks/baltrad_short_course/BALTRAD IO",
             "notebooks/baltrad_short_course/BALTRAD parallel processing",
             "notebooks/baltrad_short_course/BALTRAD QC" >>)

\* toc lines 33-35
ChapterLrose ==
  Chapter("lrose/README.md",
          << "notebooks/lrose/nexrad_mosaic.erad_tutorial.ipynb" >>)

\* toc lines 9-36
PartTools ==
  [caption |-> "Tool Foundations",
   chapters |-> << ChapterPyart, ChapterWradlib, ChapterBaltrad, ChapterLrose,
                   Chapter("notebooks/environment", << >>) >>]

\* toc lines 37-43
PartWorkflows ==
  [caption |-> "Open Radar Workflows",
   chapters |-> << Chapter("workflows/README.md",
                     << "notebooks/baltrad2wradlib/baltrad2wradlib",
                        "notebooks/pyart2baltrad/baltrad_pyart_rain_rate_example",
                        "notebooks/pyart2baltrad/pyart_baltrad_dealias_example" >>) >>]

\* toc lines 44-46
PartDev ==
  [caption |-> "Becoming a developer",
   chapters |-> << Chapter("package-development/README.md", << >>) >>]

\* the parts with the two tutorial parts exchanged
TocPartsReordered == << PartIntro, PartWorkflows, PartTools, PartDev >>

\* toc lines 3-46: the parts in file order
TocParts == << PartIntro, PartTools, PartWorkflows, PartDev >>

\* a page of the book; nb: the page is a notebook listed under "sections"
Page(f, cap, nb) == [file |-> f, caption |-> cap, nb |-> nb]

\* the pages of one chapter: the chapter file, then its sections in order
RECURSIVE SectionPages(_, _)
SectionPages(secs, cap) ==
  IF secs = << >> THEN << >>
  ELSE << Page(Head(secs), cap, TRUE) >> \o SectionPages(Tail(secs), cap)

ChapterPages(ch, cap) == << Page(ch.file, cap, FALSE) >> \o SectionPages(ch.sections, cap)

RECURSIVE ChaptersPages(_, _)
ChaptersPages(chs, cap) ==
  IF chs = << >> THEN << >>
  ELSE ChapterPages(Head(chs), cap) \o ChaptersPages(Tail(chs), cap)

RECURSIVE PartsPages(_)
PartsPages(parts) ==
  IF parts = << >> THEN << >>
  ELSE ChaptersPages(Head(parts).chapters, Head(parts).caption)
       \o PartsPages(Tail(parts))

\* the book in reading order (format: jb-book, toc line 1): the root page, then
\* every part's chapters and sections in document order
BookOrder == << Page(TocRoot, "", FALSE) >> \o PartsPages(TocParts)

\* the chapter whose notebook is modelled statement by statement
DataQuality == "notebooks/wradlib/wradlib_data_quality"
DifferentialPhase == "notebooks/wradlib/wradlib_differential_phase"

(***************************************************************************)
(* The notebook as a table of statements.  A statement names the line it   *)
(* starts on, what it does (kind), the names it reads and the names it     *)
(* binds.  Python builtins (print, display, dict, slice) are part of the   *)
(* interpreter and are not names of the notebook.                          *)
(*   kind "lit":  a literal assignment, a def or a bare name: cannot raise *)
(*   kind "call": a call into a library: binds its targets, may raise      *)
(*   the other kinds are the statements whose effect on objects the model  *)
(*   follows; each has an action of its own below                          *)
(***************************************************************************)
S(line, kind, reads, binds) ==
  [line |-> line, kind |-> kind, reads |-> reads, binds |-> binds]

\* lines 77-88
CellImports ==
  << S(77, "call", {}, {"glob"}),
     S(78, "call", {}, {"os"}),
     S(80, "call", {}, {"cartopy"}),
     S(81, "call", {}, {"ccrs"}),
     S(82, "call", {}, {"cfeature"}),
     S(83, "call", {}, {"mpl"}),
     S(84, "call", {}, {"plt"}),
     S(85, "call", {}, {"np"}),
     S(86, "call", {}, {"xr"}),
     S(88, "call", {}, {"wrl"}) >>

\* lines 110-113
CellGlob ==
  << S(110, "lit", {}, {"fglob"}),
     S(111, "glob", {"glob", "fglob"}, {"flist"}),
     S(112, "listsort", {"flist"}, {}),
     S(113, "call", {"flist"}, {}) >>

\* line 126
CellOpen == << S(126, "open", {"xr", "flist"}, {"ds"}) >>

\* lines 139-141
CellVolume ==
  << S(139, "newvol", {"wrl"}, {"vol"}),
     S(140, "extend", {"vol", "ds"}, {}),
     S(141, "volsort", {"vol"}, {}) >>

\* line 154
CellDisplayVol == << S(154, "call", {"vol"}, {}) >>

\* line 163
CellRoot == << S(163, "call", {"vol"}, {}) >>

\* lines 176-177
CellSweepNumber ==
  << S(176, "lit", {}, {"sweep_number"}),
     S(177, "index", {"vol", "sweep_number"}, {}) >>

\* lines 203-218
CellExtractClutter == << S(203, "lit", {}, {"extract_clutter"}) >>

\* lines 240-245; the call of line 241 runs the body of extract_clutter, which
\* reads xr and wrl (lines 204-205)
CellClmap ==
  << S(240, "getsweep", {"vol", "sweep_number"}, {"swp"}),
     S(241, "clmap", {"swp", "extract_clutter", "xr", "wrl"}, {"clmap"}),
     S(244, "assign_cmap", {"swp", "clmap"}, {"swp"}),
     S(245, "call", {"swp"}, {}) >>

\* lines 261-264
CellOsr ==
  << S(261, "call", {}, {"osr"}),
     S(263, "call", {"osr"}, {"wgs84"}),
     S(264, "call", {"wgs84"}, {}) >>

\* lines 277-299
CellPlotClutter ==
  << S(277, "call", {"plt"}, {"fig"}),
     S(279, "sel_georef", {"swp", "wrl", "wgs84"}, {"swpx"}),
     S(281, "call", {"fig"}, {"ax1"}),
     S(282, "call", {"swpx", "ax1"}, {}),
     S(283, "call", {"ax1"}, {}),
     S(285, "call", {"fig"}, {"ax2"}),
     S(286, "call", {"swpx", "ax2"}, {}),
     S(287, "call", {"ax2"}, {}),
     S(289, "call", {"fig"}, {"ax3"}),
     S(290, "call", {"swpx", "ax3"}, {}),
     S(293, "call", {"ax3"}, {}),
     S(295, "call", {"fig"}, {"ax4"}),
     S(296, "call", {"swpx", "ax4"}, {}),
     S(299, "call", {"ax4"}, {}) >>

\* lines 330-331
CellExtent ==
  << S(330, "call", {"wrl", "swpx"}, {"extent"}),
     S(331, "lit", {"extent"}, {}) >>

\* lines 345-349 with the two environment settings left out
CellSrtmNoEnv == << S(349, "get_srtm", {"wrl", "extent"}, {"dem"}) >>

\* lines 345-349
CellSrtm ==
  << S(345, "setenv_token", {"os"}, {}),
     S(347, "setenv_data", {"os"}, {}),
     S(349, "get_srtm", {"wrl", "extent"}, {"dem"}) >>

\* lines 362-363
CellReadGdal ==
  << S(362, "call", {"wrl", "dem"}, {"elevation"}),
     S(363, "call", {"wrl", "dem"}, {"coords"}) >>

\* lines 376-381
CellElev ==
  << S(376, "call", {"xr", "elevation", "coords"}, {"elev"}),
     S(381, "lit", {"elev"}, {}) >>

\* lines 401-411
CellPlotDem ==
  << S(401, "call", {"plt"}, {"fig"}),
     S(402, "call", {"fig"}, {"ax1"}),
     S(404, "call", {"swpx", "ax1"}, {}),
     S(407, "call", {"ax1"}, {}),
     S(409, "call", {"ax1", "swpx"}, {}),
     S(411, "call", {"elev", "ax1"}, {}) >>

\* lines 433-434
CellHvplot ==
  << S(433, "call", {}, {"hvplot"}),
     S(434, "call", {}, {"hvplot"}) >>

\* lines 456-472
CellQuadmesh ==
  << S(456, "call", {"swpx"}, {"cl"}),
     S(463, "call", {"elev"}, {"dm"}),
     S(472, "call", {"dm", "cl"}, {}) >>

\* lines 488-492
CellSite ==
  << S(488, "call", {"swpx"}, {"sitecoords"}),
     S(489, "call", {"swpx"}, {"r"}),
     S(490, "call", {"swpx"}, {"az"}),
     S(491, "lit", {}, {"bw"}),
     S(492, "call", {"wrl", "r", "bw"}, {"beamradius"}) >>

\* lines 505-519
CellRaster ==
  << S(505, "extract_raster", {"wrl", "dem"}, {"rastervalues", "rastercoords", "proj"}),
     S(509, "call", {"extent"}, {"rlimits"}),
     S(511, "call", {"wrl", "rastercoords", "rlimits"}, {"ind"}),
     S(512, "clip_coords", {"rastercoords", "ind"}, {"rastercoords"}),
     S(513, "clip_values", {"rastervalues", "ind"}, {"rastervalues"}),
     S(515, "call", {"np", "swpx"}, {"polcoords"}),
     S(517, "call", {"wrl", "rastercoords", "rastervalues", "polcoords"},
       {"polarvalues"}) >>

\* lines 539-541
CellPBB ==
  << S(539, "call", {"wrl", "polarvalues", "swpx", "beamradius"}, {"PBB"}),
     S(540, "call", {"np", "PBB"}, {"PBB"}),
     S(541, "call", {"PBB"}, {}) >>

\* lines 554-555
CellCBB ==
  << S(554, "call", {"wrl", "PBB"}, {"CBB"}),
     S(555, "call", {"CBB"}, {}) >>

\* lines 575-591
CellAnnotate == << S(576, "lit", {}, {"annotate_map"}) >>
\* lines 600-660; annotate_map (lines 576-591) reads plt when it is called
CellPlotBlockage ==
  << S(600, "call", {"swpx"}, {"alt"}),
     S(601, "call", {"plt"}, {"fig"}),
     S(604, "call", {"plt"}, {"ax1"}),
     S(605, "call", {"plt"}, {"ax2"}),
     S(606, "call", {"plt"}, {"ax3"}),
     S(609, "lit", {}, {"angle"}),
     S(612, "call", {"wrl", "polarvalues", "ax1", "r", "az", "mpl"},
       {"ax1", "dem"}),
     S(615, "call", {"ax1", "np", "angle"}, {}),
     S(618, "call", {"ax1", "sitecoords"}, {}),
     S(619, "call", {"annotate_map", "plt", "ax1", "dem", "np", "r"}, {}),
     S(620, "call", {"ax1"}, {}),
     S(621, "call", {"ax1"}, {}),
     S(624, "call", {"wrl", "CBB", "ax2", "r", "az", "mpl"}, {"ax2", "cbb"}),
     S(625, "call", {"annotate_map", "plt", "ax2", "cbb"}, {}),
     S(626, "call", {"ax2"}, {}),
     S(627, "call", {"ax2"}, {}),
     S(630, "call", {"ax3", "r", "alt", "angle"}, {"bc"}),
     S(631, "call", {"ax3", "r", "alt", "angle", "beamradius"}, {"b3db"}),
     S(638, "call", {"ax3", "r", "alt", "angle", "beamradius"}, {}),
     S(639, "call", {"ax3", "r", "polarvalues", "angle"}, {}),
     S(640, "call", {"ax3", "np", "r"}, {}),
     S(641, "call", {"ax3"}, {}),
     S(642, "call", {"ax3"}, {}),
     S(643, "call", {"ax3"}, {}),
     S(644, "call", {"ax3"}, {}),
     S(646, "call", {"ax3"}, {"axb"}),
     S(647, "call", {"axb", "r", "CBB", "angle"}, {"bbf"}),
     S(648, "call", {"axb"}, {}),
     S(649, "call", {"axb"}, {}),
     S(650, "call", {"axb"}, {}),
     S(651, "call", {"axb"}, {}),
     S(652, "call", {"axb", "np", "r"}, {}),
     S(655, "call", {"ax3", "bc", "b3db", "bbf"}, {"legend"}) >>

\* lines 678-687
CellFormatters ==
  << S(678, "lit", {}, {"height_formatter"}),
     S(684, "lit", {}, {"range_formatter"}) >>

\* lines 696-762
CellCurvelinear ==
  << S(696, "call", {"plt"}, {"fig"}),
     S(698, "call", {"wrl", "fig"}, {"cgax", "caax", "paax"}),
     S(701, "lit", {}, {"angle"}),
     S(704, "lit", {}, {"er"}),
     S(705, "call", {"cgax"}, {"gh"}),
     S(706, "call", {"gh"}, {}),
     S(707, "call", {"gh"}, {}),
     S(711, "call", {"wrl", "r", "sitecoords", "er"}, {"bhe"}),
     S(712, "call", {"wrl", "r", "sitecoords", "er"}, {"ade"}),
     S(713, "call", {"np", "r"}, {"nn0"}),
     S(715, "call", {"nn0", "er"}, {"ecp"}),
     S(717, "call", {"np", "ade", "er"}, {"thetap"}),
     S(720, "call", {"wrl", "r", "sitecoords", "er"}, {"bh0"}),
     S(723, "call", {"paax", "thetap", "ecp"}, {"bes"}),
     S(724, "call", {"paax", "thetap", "ecp", "alt", "angle"}, {"bc"}),
     S(725, "call", {"paax", "thetap", "ecp", "bh0"}, {"bc0r"}),
     S(726, "call", {"paax", "thetap", "ecp", "bhe"}, {"bc0n"}),
     S(727, "call", {"paax", "thetap", "ecp", "alt", "angle", "beamradius"},
       {"b3db"}),
     S(730, "call", {"paax", "thetap", "ecp", "alt", "angle", "beamradius"}, {}),
     S(733, "call", {"paax", "thetap", "ecp", "polarvalues", "angle"}, {}),
     S(736, "call", {"cgax", "np", "ade"}, {}),
     S(737, "call", {"cgax", "ecp"}, {}),
     S(738, "call", {"caax"}, {}),
     S(739, "call", {"cgax"}, {}),
     S(740, "call", {"cgax"}, {}),
     S(741, "call", {"caax", "mpl"}, {}),
     S(744, "call", {"caax", "mpl"}, {}),
     S(745, "call", {"caax", "mpl", "height_formatter"}, {}),
     S(746, "call", {"caax", "mpl", "range_formatter"}, {}),
     S(748, "call", {"caax"}, {}),
     S(749, "call", {"caax"}, {}),
     S(751, "call", {"paax", "bes", "bc0n", "bc0r", "bc", "b3db"}, {"legend"}) >>

\* lines 780-782 with the assignment of CBB left out
CellQualityIndexNoCBB == << S(782, "georef", {"swpx", "wrl"}, {"swpx"}) >>

\* lines 780-782
CellQualityIndex ==
  << S(780, "assign_cbb", {"swpx", "CBB"}, {"swpx"}),
     S(782, "georef", {"swpx", "wrl"}, {"swpx"}) >>

\* lines 791-806
CellQualityPlot ==
  << S(791, "call", {"plt"}, {"fig"}),
     S(793, "call", {"fig"}, {"ax1"}),
     S(794, "call", {"swpx", "ax1"}, {}),
     S(795, "call", {"ax1", "swpx"}, {}),
     S(796, "call", {"ax1"}, {}),
     S(798, "call", {"fig"}, {"ax2"}),
     S(800, "mask", {"swpx", "ax2"}, {}),
     S(805, "call", {"ax2", "swpx"}, {}),
     S(806, "call", {"ax2"}, {}) >>

\* the code cells of the notebook, top to bottom
Cells ==
  << CellImports, CellGlob, CellOpen, CellVolume, CellDisplayVol, CellRoot,
     CellSweepNumber, CellExtractClutter, CellClmap, CellOsr, CellPlotClutter,
     CellExtent, CellSrtm, CellReadGdal, CellElev, CellPlotDem, CellHvplot,
     CellQuadmesh, CellSite, CellRaster, CellPBB, CellCBB, CellAnnotate,
     CellPlotBlockage, CellFormatters, CellCurvelinear, CellQualityIndex,
     CellQualityPlot >>

NCells == Len(Cells)

\* every name some statement binds
Names ==
  UNION { UNION { Cells[c][s].binds : s \in 1..Len(Cells[c]) } : c \in 1..NCells }

(***************************************************************************)
(* State.                                                                  *)
(***************************************************************************)
VARIABLES
  book,   \* the pages built so far, in order
  pc,     \* the notebook run: [status, cell, stmt]
  ns,     \* the interpreter's namespace: name -> the value bound to it
  heap,   \* the objects the run has created: object -> its contents
  env,    \* os.environ: who set the two variables get_srtm reads
  maskIn,   \* the quality mask on its own: the fields of each bin
  maskOut,  \* the quality mask on its own: what the mask made of each bin
  wrapIn,   \* extract_clutter on its own: the caller's arguments and the chunking
  wrapOut   \* extract_clutter on its own: what it handed on and returned

vars == << book, pc, ns, heap, env, maskIn, maskOut, wrapIn, wrapOut >>

\* the variables a run of the book leaves alone
aux == << maskIn, maskOut, wrapIn, wrapOut >>

\* A value is named by the statement that made it: << line, k >>.
Unbound == << 0, 0 >>
\* a value left behind by another chapter's notebook
Foreign == << 0, 1 >>

\* line 176
SweepNumber == 3

\* the sweep variables the notebook reads from the files (lines 241, 794, 803)
FileVars ==
  {"reflectivity", "reflectivity_hh_clut", "uncorrected_cross_correlation_ratio"}

\* the contents of an object: a list or volume has items, a sweep has a start
\* time, variables, a coordinate system and a range extent
Obj(kind, items, time, vs, crs, extent) ==
  [kind |-> kind, items |-> items, time |-> time, vars |-> vs, crs |-> crs,
   extent |-> extent]

NoHeap == [o \in {} |-> 0]

Cur == Cells[pc.cell][pc.stmt]

Running == pc.status = "running"

\* control after statement s of cell c has finished
Advance(c, s) ==
  IF s < Len(Cells[c]) THEN [status |-> "running", cell |-> c, stmt |-> s + 1]
  ELSE IF c < NCells THEN [status |-> "running", cell |-> c + 1, stmt |-> 1]
  ELSE [status |-> "done", cell |-> c, stmt |-> s]

\* an error that is caught and passed over
RaiseCaught(c, s) == Advance(c, s)

\* control after statement s of cell c has raised: no statement of the notebook
\* is inside try/except, so the run stops at the statement
Raise(c, s) == [status |-> "error", cell |-> c, stmt |-> s]

\* the namespace after statement st has bound its targets
Bind(st) == [n \in Names |-> IF n \in st.binds THEN << st.line, 0 >> ELSE ns[n]]

\* the kinds of statement that cannot raise
NoRaise == {"lit", "glob", "listsort", "setenv_token", "setenv_data"}

\* sequence s with x put before the first element that sorts after it
RECURSIVE InsertBy(_, _, _)
InsertBy(s, x, h) ==
  IF s = << >> THEN << x >>
  ELSE IF h[x].time < h[Head(s)].time THEN << x >> \o s
  ELSE << Head(s) >> \o InsertBy(Tail(s), x, h)

\* list.sort(key=x.time.min()): ascending and stable
RECURSIVE SortByTime(_, _)
SortByTime(s, h) ==
  IF s = << >> THEN << >>
  ELSE InsertBy(SortByTime(SubSeq(s, 1, Len(s) - 1), h), s[Len(s)], h)

\* Dataset.assign done in place, on the object it is called on
AssignInPlace(h, src, new, var) ==
  (new :> [h[src] EXCEPT !.vars = @ \cup {var}])
  @@ [h EXCEPT ![src].vars = @ \cup {var}]

\* Dataset.assign (lines 244, 780): a new dataset with one more variable
Assign(h, src, new, var) == (new :> [h[src] EXCEPT !.vars = @ \cup {var}]) @@ h

(***************************************************************************)
(* The quality-index mask of lines 800-804 as a function of the fields of  *)
(* one bin.  Fields are whole numbers: CBB and RHOHV in hundredths, CMAP   *)
(* as 0 (False) and 1 (True).                                              *)
(***************************************************************************)
\* a missing value: NaN, which np.ma.masked_invalid masks (line 540) and which
\* a masked or missing array entry becomes inside a dataset
NaN == -1

\* line 801: 0.5, in hundredths
CbbMax == 50
\* line 802: 1.0
CmapClutter == 1
\* line 803: 0.8, in hundredths
RhohvMin == 80

\* comparisons of the array library: any comparison with NaN is False
Le(a, b) == a # NaN /\ b # NaN /\ a <= b
Lt(a, b) == a # NaN /\ b # NaN /\ a < b
Ge(a, b) == a # NaN /\ b # NaN /\ a >= b
Gt(a, b) == a # NaN /\ b # NaN /\ a > b
Eq(a, b) == a # NaN /\ b # NaN /\ a = b

\* the fields a bin may hold: CBB comes from a masked array (lines 540, 554,
\* 780), CMAP is the boolean clutter map, RHOHV and the reflectivity come from
\* the file and may be missing
BinFields ==
  [cbb : {NaN, 0, CbbMax, CbbMax + 1},
   cmap : {0, 1},
   rhohv : {NaN, RhohvMin - 1, RhohvMin},
   refl : {NaN, 30}]

\* the keep condition with the first comparison made strict
KeepStrict(f) ==
  Lt(f.cbb, CbbMax) /\ Lt(f.cmap, CmapClutter) /\ Ge(f.rhohv, RhohvMin)

\* lines 801-803: (CBB <= 0.5) & (CMAP < 1.0) & (RHOHV >= 0.8)
Keep(f) ==
  Le(f.cbb, CbbMax) /\ Lt(f.cmap, CmapClutter) /\ Ge(f.rhohv, RhohvMin)

\* line 800, 804: swpx.where(cond).reflectivity_hh_clut keeps the value where
\* cond holds and puts NaN elsewhere
Where(f) == IF Keep(f) THEN f.refl ELSE NaN

MainIdle ==
  /\ book = << >>
  /\ pc = [status |-> "idle", cell |-> 1, stmt |-> 1]
  /\ ns = [n \in Names |-> Unbound]
  /\ heap = NoHeap
  /\ env = [token |-> "unset", data |-> "unset"]

InitMask ==
  /\ MainIdle
  /\ maskIn \in [1..NBins -> BinFields]
  /\ maskOut = << >>
  /\ wrapIn = << >> /\ wrapOut = << >>

\* lines 800-804 on every bin
EvaluateMask ==
  /\ maskOut = << >>
  /\ maskOut' = [b \in 1..NBins |->
                   [keep |-> Keep(maskIn[b]), shown |-> Where(maskIn[b])]]
  /\ UNCHANGED << book, pc, ns, heap, env, maskIn, wrapIn, wrapOut >>

NextMask == EvaluateMask

SpecMask == InitMask /\ [][NextMask]_vars

(***************************************************************************)
(* extract_clutter (lines 203-218) as a function of the caller's keyword   *)
(* arguments and of the chunking of its input.  tr1 and tr2 are in tenths; *)
(* rm_nans is 0 (False) or 1 (True).                                       *)
(***************************************************************************)
\* a keyword argument the caller leaves out
Omitted == -1

\* line 203: the defaults of the signature
DefaultWsize == 5
DefaultThrsnorain == 0
DefaultTr1 == 60
DefaultNp == 6
DefaultTr2 == 13
DefaultRmNans == 0

\* line 242: the keyword arguments of the notebook's call
NotebookCall ==
  [wsize |-> 5, thrsnorain |-> 0, tr1 |-> 210, n_p |-> 23, tr2 |-> 13,
   rm_nans |-> 0]

\* the keyword arguments a caller may give
CallerKwargs ==
  [wsize : {Omitted, 5, 3},
   thrsnorain : {Omitted, 0, 1},
   tr1 : {Omitted, 60, 210},
   n_p : {Omitted, 6, 23},
   tr2 : {Omitted, 13, 20},
   rm_nans : {Omitted, 0, 1}]

\* line 203: the parameters after Python has filled in the defaults
Params(given) ==
  [wsize |-> IF given.wsize = Omitted THEN DefaultWsize ELSE given.wsize,
   thrsnorain |-> IF given.thrsnorain = Omitted THEN DefaultThrsnorain
                  ELSE given.thrsnorain,
   tr1 |-> IF given.tr1 = Omitted THEN DefaultTr1 ELSE given.tr1,
   n_p |-> IF given.n_p = Omitted THEN DefaultNp ELSE given.n_p,
   tr2 |-> IF given.tr2 = Omitted THEN DefaultTr2 ELSE given.tr2,
   rm_nans |-> IF given.rm_nans = Omitted THEN DefaultRmNans ELSE given.rm_nans]

\* the dict with the two thresholds exchanged
GabellaKwargsSwapped(p) ==
  [wsize |-> p.wsize, thrsnorain |-> p.thrsnorain, tr1 |-> p.tr2, n_p |-> p.n_p,
   tr2 |-> p.tr1, rm_nans |-> p.rm_nans]

\* lines 210-217: kwargs=dict(wsize=wsize, ..., rm_nans=rm_nans)
GabellaKwargs(p) ==
  [wsize |-> p.wsize, thrsnorain |-> p.thrsnorain, tr1 |-> p.tr1, n_p |-> p.n_p,
   tr2 |-> p.tr2, rm_nans |-> p.rm_nans]

\* the dimensions of a sweep variable (line 780)
SweepDims == << "azimuth", "range" >>

\* only the range declared a core dimension
InputCoreDimsRangeOnly == << "range" >>

\* line 207
InputCoreDims == << "azimuth", "range" >>

\* line 208
OutputCoreDims == << "azimuth", "range" >>

Elems(s) == { s[i] : i \in 1..Len(s) }

\* the dimensions of s that are not in the set c, in order
RECURSIVE Without(_, _)
Without(s, c) ==
  IF s = << >> THEN << >>
  ELSE (IF Head(s) \in c THEN << >> ELSE << Head(s) >>) \o Without(Tail(s), c)

\* the whole of an array with dimensions dims: chunk 1 of 1 along each
Whole(dims) == [d \in Elems(dims) |-> << 1, 1 >>]

\* xr.apply_ufunc(func, da, input_core_dims=[inCore], output_core_dims=[outCore],
\* dask="parallelized", kwargs=kw) on a chunked array (lines 204-218): a core
\* dimension cut into several chunks is an error; otherwise func is called once
\* for every block of the other dimensions, each block spanning the core
\* dimensions, and the result has the other dimensions followed by outCore
ApplyUfunc(func, da, inCore, outCore, kw) ==
  LET core == Elems(inCore)
      loop == Without(da.dims, core)
      blocks == { blk \in [Elems(loop) -> 1..MaxChunks] :
                  \A d \in Elems(loop) : blk[d] <= da.chunks[d] }
  IN  IF \E d \in core : d \notin Elems(da.dims) \/ da.chunks[d] > 1
      THEN [raised |-> TRUE, calls |-> {}, dims |-> << >>, kwargs |-> kw]
      ELSE [raised |-> FALSE,
            calls |-> { [func |-> func, kwargs |-> kw,
                         block |-> [d \in Elems(da.dims) |->
                                      IF d \in core THEN << 1, 1 >>
                                      ELSE << blk[d], da.chunks[d] >>]] :
                        blk \in blocks },
            dims |-> loop \o outCore,
            kwargs |-> kw]

\* lines 203-218
ExtractClutter(da, given) ==
  ApplyUfunc("filter_gabella", da, InputCoreDims, OutputCoreDims,
             GabellaKwargs(Params(given)))

InitWrap ==
  /\ MainIdle
  /\ maskIn = << >> /\ maskOut = << >>
  /\ wrapIn \in [given : CallerKwargs,
                 chunks : [Elems(SweepDims) -> 1..MaxChunks]]
  /\ wrapOut = << >>

\* a call of extract_clutter on a sweep variable read with chunks={} (line 126)
CallExtractClutter ==
  /\ wrapOut = << >>
  /\ wrapOut' = ExtractClutter([dims |-> SweepDims, chunks |-> wrapIn.chunks],
                               wrapIn.given)
  /\ UNCHANGED << book, pc, ns, heap, env, maskIn, maskOut, wrapIn >>

NextWrap == CallExtractClutter

SpecWrap == InitWrap /\ [][NextWrap]_vars

(***************************************************************************)
(* Building the book.                                                      *)
(***************************************************************************)
NextPage == BookOrder[Len(book) + 1]

\* the names another chapter's notebook may leave behind in the interpreter
ForeignNames == {"flist", "swpx", "CBB"}

Init ==
  /\ book = << >>
  /\ pc = [status |-> "idle", cell |-> 1, stmt |-> 1]
  /\ ns = [n \in Names |-> Unbound]
  /\ heap = NoHeap
  /\ env = [token |-> "unset", data |-> "unset"]
  /\ maskIn = << >> /\ maskOut = << >>
  /\ wrapIn = << >> /\ wrapOut = << >>

\* a page that runs no notebook is built
BuildPage ==
  /\ Len(book) < Len(BookOrder)
  /\ NextPage.file # DataQuality
  /\ ~ NextPage.nb \/ pc.status = "closed"
  /\ book' = Append(book, NextPage)
  /\ UNCHANGED << aux, pc, ns, heap, env >>

\* another chapter's notebook is run before the data-quality chapter; the
\* interpreter and the environment are taken to be shared with it, and it may
\* leave names and environment variables of its own behind
BuildOtherNotebook ==
  /\ Len(book) < Len(BookOrder)
  /\ NextPage.file # DataQuality
  /\ NextPage.nb
  /\ pc.status = "idle"
  /\ book' = Append(book, NextPage)
  /\ \E left \in SUBSET ForeignNames, setenv \in BOOLEAN :
       /\ ns' = [n \in Names |-> IF n \in left THEN Foreign ELSE ns[n]]
       /\ env' = IF setenv THEN [token |-> "foreign", data |-> "foreign"] ELSE env
  /\ UNCHANGED << aux, pc, heap >>

\* the data-quality notebook starts at its first code cell
StartNotebook ==
  /\ Len(book) < Len(BookOrder)
  /\ NextPage.file = DataQuality
  /\ pc.status = "idle"
  /\ pc' = [status |-> "running", cell |-> 1, stmt |-> 1]
  /\ UNCHANGED << aux, book, ns, heap, env >>

\* the run is over (finished or stopped by an error): its page is built and
\* its interpreter is discarded
FinishNotebook ==
  /\ Len(book) < Len(BookOrder)
  /\ NextPage.file = DataQuality
  /\ pc.status \in {"done", "error"}
  /\ book' = Append(book, NextPage)
  /\ pc' = [status |-> "closed", cell |-> 1, stmt |-> 1]
  /\ ns' = [n \in Names |-> Unbound]
  /\ heap' = NoHeap
  /\ env' = [token |-> "unset", data |-> "unset"]
  /\ UNCHANGED aux

(***************************************************************************)
(* The statements of the notebook.                                         *)
(***************************************************************************)
At(kind) == Running /\ Cur.kind = kind

Go == pc' = Advance(pc.cell, pc.stmt)

\* a literal assignment, a def or a bare name
Literal ==
  /\ At("lit")
  /\ ns' = Bind(Cur)
  /\ Go
  /\ UNCHANGED << aux, book, heap, env >>

\* a library call that returns: its targets are bound to what it returned
Call ==
  /\ At("call")
  /\ ns' = Bind(Cur)
  /\ Go
  /\ UNCHANGED << aux, book, heap, env >>

\* any call may raise (a malformed file, a missing tile, a missing module)
Fail ==
  /\ Running
  /\ Cur.kind \notin NoRaise
  /\ pc' = Raise(pc.cell, pc.stmt)
  /\ UNCHANGED << aux, book, ns, heap, env >>

\* line 111: flist = glob.glob(fglob); the files come in arbitrary order
Glob ==
  /\ At("glob")
  /\ \E n \in 0..MaxFiles :
       \E order \in Permutations(1..n) :
         heap' = (<< 111, 0 >> :> Obj("list", [i \in 1..n |-> order[i]], 0, {}, "", ""))
                 @@ heap
  /\ ns' = Bind(Cur)
  /\ Go
  /\ UNCHANGED << aux, book, env >>

\* line 112: flist.sort() sorts the list in place
ListSort ==
  /\ At("listsort")
  /\ heap' = [heap EXCEPT ![ns["flist"]].items = SortSeq(@, LAMBDA a, b : a < b)]
  /\ ns' = Bind(Cur)
  /\ Go
  /\ UNCHANGED << aux, book, env >>

\* line 126: one sweep dataset per file, in the order of flist
Open ==
  /\ At("open")
  /\ LET files == heap[ns["flist"]].items
     IN  \E t \in [1..Len(files) -> 1..MaxTime] :
           heap' = (<< 126, 0 >> :>
                      Obj("list", [i \in 1..Len(files) |-> << 126, files[i] >>],
                          0, {}, "", ""))
                   @@ [o \in { << 126, files[i] >> : i \in 1..Len(files) } |->
                         Obj("sweep", << >>, t[o[2]], FileVars, "none", "full")]
                   @@ heap
  /\ ns' = Bind(Cur)
  /\ Go
  /\ UNCHANGED << aux, book, env >>

\* line 139: an empty RadarVolume
NewVolume ==
  /\ At("newvol")
  /\ heap' = (<< 139, 0 >> :> Obj("volume", << >>, 0, {}, "", "")) @@ heap
  /\ ns' = Bind(Cur)
  /\ Go
  /\ UNCHANGED << aux, book, env >>

\* line 140: vol.extend(ds) appends to vol itself; its return value is dropped
Extend ==
  /\ At("extend")
  /\ heap' = [heap EXCEPT ![ns["vol"]].items = @ \o heap[ns["ds"]].items]
  /\ ns' = Bind(Cur)
  /\ Go
  /\ UNCHANGED << aux, book, env >>

\* line 141: vol.sort(key=...) sorts vol itself; its return value is dropped
VolSort ==
  /\ At("volsort")
  /\ heap' = [heap EXCEPT ![ns["vol"]].items = SortByTime(@, heap)]
  /\ ns' = Bind(Cur)
  /\ Go
  /\ UNCHANGED << aux, book, env >>

\* line 177: display(vol[sweep_number]); the index must exist
Index ==
  /\ At("index")
  /\ Len(heap[ns["vol"]].items) > SweepNumber
  /\ ns' = Bind(Cur)
  /\ Go
  /\ UNCHANGED << aux, book, heap, env >>

\* line 240: swp = vol[sweep_number] names the sweep held by the volume
GetSweep ==
  /\ At("getsweep")
  /\ Len(heap[ns["vol"]].items) > SweepNumber
  /\ ns' = [ns EXCEPT !["swp"] = heap[ns["vol"]].items[SweepNumber + 1]]
  /\ Go
  /\ UNCHANGED << aux, book, heap, env >>

\* lines 241-243: clmap = swp.reflectivity_hh_clut.pipe(extract_clutter, ...);
\* the variable was read with chunks={} (line 126) and extract_clutter returns
\* unless apply_ufunc raises
Clmap ==
  /\ At("clmap")
  /\ "reflectivity_hh_clut" \in heap[ns["swp"]].vars
  /\ \E ch \in [Elems(SweepDims) -> 1..MaxChunks] :
       ~ ExtractClutter([dims |-> SweepDims, chunks |-> ch], NotebookCall).raised
  /\ ns' = Bind(Cur)
  /\ Go
  /\ UNCHANGED << aux, book, heap, env >>

\* line 244: swp = swp.assign({"CMAP": clmap})
AssignCMAP ==
  /\ At("assign_cmap")
  /\ heap' = Assign(heap, ns["swp"], << 244, 0 >>, "CMAP")
  /\ ns' = Bind(Cur)
  /\ Go
  /\ UNCHANGED << aux, book, env >>

\* line 279: swpx = swp.sel(range=slice(0, 100000)).pipe(georeference_dataset,
\* proj=wgs84): the selection and the georeferenced dataset are new datasets
SelGeoref ==
  /\ At("sel_georef")
  /\ heap' = (<< 279, 0 >> :>
                [heap[ns["swp"]] EXCEPT !.extent = "100km", !.crs = "wgs84"])
             @@ heap
  /\ ns' = Bind(Cur)
  /\ Go
  /\ UNCHANGED << aux, book, env >>

\* line 345: os.environ["WRADLIB_EARTHDATA_BEARER_TOKEN"] = ""
SetEnvToken ==
  /\ At("setenv_token")
  /\ env' = [env EXCEPT !.token = "own"]
  /\ ns' = Bind(Cur)
  /\ Go
  /\ UNCHANGED << aux, book, heap >>

\* line 347: os.environ["WRADLIB_DATA"] = "data/wradlib-data"
SetEnvData ==
  /\ At("setenv_data")
  /\ env' = [env EXCEPT !.data = "own"]
  /\ ns' = Bind(Cur)
  /\ Go
  /\ UNCHANGED << aux, book, heap >>

\* line 349: dem = wrl.io.get_srtm(extent.values())
GetSrtm ==
  /\ At("get_srtm")
  /\ heap' = (<< 349, 0 >> :> Obj("raster", << >>, 0, {}, "wgs84", "full")) @@ heap
  /\ ns' = Bind(Cur)
  /\ Go
  /\ UNCHANGED << aux, book, env >>

\* line 505: rastervalues, rastercoords, proj = extract_raster_dataset(dem, ...)
ExtractRaster ==
  /\ At("extract_raster")
  /\ heap' = (<< 505, 1 >> :> Obj("array", << >>, 0, {}, "", "full"))
             @@ (<< 505, 2 >> :> Obj("array", << >>, 0, {}, "", "full"))
             @@ heap
  /\ ns' = [Bind(Cur) EXCEPT !["rastervalues"] = << 505, 1 >>,
                             !["rastercoords"] = << 505, 2 >>,
                             !["proj"] = << 505, 3 >>]
  /\ Go
  /\ UNCHANGED << aux, book, env >>

\* line 512: rastercoords = rastercoords[ind[1] : ind[3], ind[0] : ind[2], ...]
ClipCoords ==
  /\ At("clip_coords")
  /\ heap' = (<< 512, 0 >> :> [heap[ns["rastercoords"]] EXCEPT !.extent = "clipped"])
             @@ heap
  /\ ns' = Bind(Cur)
  /\ Go
  /\ UNCHANGED << aux, book, env >>

\* line 513: rastervalues = rastervalues[ind[1] : ind[3], ind[0] : ind[2]]
ClipValues ==
  /\ At("clip_values")
  /\ heap' = (<< 513, 0 >> :> [heap[ns["rastervalues"]] EXCEPT !.extent = "clipped"])
             @@ heap
  /\ ns' = Bind(Cur)
  /\ Go
  /\ UNCHANGED << aux, book, env >>

\* line 780: swpx = swpx.assign({"CBB": (["azimuth", "range"], CBB)})
AssignCBB ==
  /\ At("assign_cbb")
  /\ heap' = Assign(heap, ns["swpx"], << 780, 0 >>, "CBB")
  /\ ns' = Bind(Cur)
  /\ Go
  /\ UNCHANGED << aux, book, env >>

\* line 782: swpx = swpx.pipe(wrl.georef.georeference_dataset)
Georef ==
  /\ At("georef")
  /\ heap' = (<< 782, 0 >> :> [heap[ns["swpx"]] EXCEPT !.crs = "aeqd"]) @@ heap
  /\ ns' = Bind(Cur)
  /\ Go
  /\ UNCHANGED << aux, book, env >>

\* the variables the mask of lines 800-804 reads from swpx
MaskVars ==
  {"CBB", "CMAP", "uncorrected_cross_correlation_ratio", "reflectivity_hh_clut"}

\* lines 800-804: the masked reflectivity is plotted; a variable that is not on
\* swpx raises AttributeError
Mask ==
  /\ At("mask")
  /\ MaskVars \subseteq heap[ns["swpx"]].vars
  /\ ns' = Bind(Cur)
  /\ Go
  /\ UNCHANGED << aux, book, heap, env >>

Next ==
  \/ BuildPage
  \/ BuildOtherNotebook
  \/ StartNotebook
  \/ FinishNotebook
  \/ Literal
  \/ Call
  \/ Fail
  \/ Glob
  \/ ListSort
  \/ Open
  \/ NewVolume
  \/ Extend
  \/ VolSort
  \/ Index
  \/ GetSweep
  \/ Clmap
  \/ AssignCMAP
  \/ SelGeoref
  \/ SetEnvToken
  \/ SetEnvData
  \/ GetSrtm
  \/ ExtractRaster
  \/ ClipCoords
  \/ ClipValues
  \/ AssignCBB
  \/ Georef
  \/ Mask

Spec == Init /\ [][Next]_vars

TypeOK ==
  /\ pc.status \in {"idle", "running", "error", "done", "closed"}
  /\ Len(book) <= Len(BookOrder)

(***************************************************************************)
(* Claims about the table of contents.                                     *)
(***************************************************************************)
\* the order of the parts the book is said to have
PartOrder ==
  << "Introductions + Overview", "Tool Foundations", "Open Radar Workflows",
     "Becoming a developer" >>

\* the place of a caption in that order; the root page comes before all parts
Rank(cap) ==
  IF cap = "" THEN 0
  ELSE IF \E i \in 1..Len(PartOrder) : PartOrder[i] = cap
       THEN CHOOSE i \in 1..Len(PartOrder) : PartOrder[i] = cap
       ELSE Len(PartOrder) + 1

\* C2: the pages of the book come part by part in the order introductions,
\* Tool Foundations, Open Radar Workflows, Becoming a developer: a page of an
\* earlier part is never built after a page of a later part, no file is built
\* twice, and the finished book holds all four parts.
C2_PartsInOrder ==
  /\ \A i, j \in 1..Len(book) :
       i < j => /\ Rank(book[i].caption) <= Rank(book[j].caption)
                /\ book[i].file # book[j].file
  /\ \A i \in 1..Len(book) : Rank(book[i].caption) <= Len(PartOrder)
  /\ Len(book) = Len(BookOrder)
       => { book[i].caption : i \in 2..Len(book) }
            = { PartOrder[k] : k \in 1..Len(PartOrder) }

\* the whole book has been built, with pages of every part
C2_Witness ==
  /\ Len(book) = Len(BookOrder)
  /\ \E i, j \in 1..Len(book) :
       /\ book[i].caption = "Tool Foundations"
       /\ book[j].caption = "Open Radar Workflows"

\* C3: the page built right after the data-quality notebook is the
\* differential-phase notebook.
C3_NextIsDifferentialPhase ==
  \A i \in 1..Len(book) :
    (book[i].file = DataQuality /\ i < Len(book))
      => book[i + 1].file = DifferentialPhase

\* the data-quality page and the page after it have been built
C3_Witness ==
  \E i \in 1..Len(book) : book[i].file = DataQuality /\ i < Len(book)

(***************************************************************************)
(* Claims about the run of the notebook.                                   *)
(***************************************************************************)
\* the name is bound to a value the notebook made itself
Own(n) == ns[n] # Unbound /\ ns[n] # Foreign

Live == pc.status \in {"running", "error", "done"}

RECURSIVE TimesAscend(_, _)
TimesAscend(s, h) ==
  Len(s) < 2 \/ (h[s[1]].time <= h[s[2]].time /\ TimesAscend(Tail(s), h))

\* step 1: the volume holds every opened sweep, in order of time
VolumeBuilt ==
  /\ Own("vol") /\ Own("ds")
  /\ Len(heap[ns["vol"]].items) = Len(heap[ns["ds"]].items)
  /\ { heap[ns["vol"]].items[i] : i \in 1..Len(heap[ns["vol"]].items) }
       = { heap[ns["ds"]].items[i] : i \in 1..Len(heap[ns["ds"]].items) }
  /\ TimesAscend(heap[ns["vol"]].items, heap)

\* step 3: the clutter map is a variable of the sweep swp names
ClutterMapAttached == Own("swp") /\ "CMAP" \in heap[ns["swp"]].vars

\* C4: a run performs the four steps in the announced order (volume built,
\* extract_clutter defined, CMAP computed and attached, PBB and CBB computed),
\* the quality-index mask is reached and evaluated only with CMAP and CBB on
\* swpx, and every name a statement reads was bound by an earlier statement of
\* the notebook.
C4_StepsInOrder ==
  Live =>
    /\ Own("extract_clutter") => VolumeBuilt
    /\ Own("clmap") => Own("extract_clutter")
    /\ ClutterMapAttached => Own("clmap")
    /\ Own("PBB") => ClutterMapAttached
    /\ Own("CBB") => Own("PBB")
    /\ Cur.line >= 800 => /\ Own("CBB") /\ Own("swpx")
                           /\ {"CMAP", "CBB"} \subseteq heap[ns["swpx"]].vars
    /\ Running => \A n \in Cur.reads : Own(n)

\* a run over at least four files has finished, mask included
C4_Witness ==
  /\ pc.status = "done"
  /\ Own("CBB") /\ Own("clmap")
  /\ {"CMAP", "CBB"} \subseteq heap[ns["swpx"]].vars

C6_ReadsOnlyOwnState ==
  /\ Running => /\ \A n \in Cur.reads : ns[n] # Foreign
                /\ Cur.kind = "get_srtm" => env.token = "own" /\ env.data = "own"
  /\ pc.status = "done" => /\ \A n \in Names : ns[n] # Foreign
                           /\ env.token = "own" /\ env.data = "own"

\* the run is about to set the environment while names and environment
\* variables of another chapter are present
C6_Witness ==
  /\ At("setenv_token")
  /\ env.data = "foreign" /\ env.token = "foreign"
  /\ ns["CBB"] = Foreign

\* C7: nothing catches an error.  A statement either completes, binding its
\* targets, or the run stops at it with the namespace, the objects and the
\* environment as they were; after that no statement takes effect.  With fewer
\* than four files the run stops at line 177 with sweep_number bound.
C7_ErrorsStopTheRun ==
  [][/\ (Running /\ pc'.status \in {"running", "done"})
          => /\ pc' = Advance(pc.cell, pc.stmt)
             /\ \A n \in Cur.binds :
                  IF Cur.kind = "getsweep"
                  THEN ns'[n] = heap[ns["vol"]].items[SweepNumber + 1]
                  ELSE ns'[n][1] = Cur.line
     /\ (Running /\ pc'.status = "error")
          => /\ pc'.cell = pc.cell /\ pc'.stmt = pc.stmt
             /\ ns' = ns /\ heap' = heap /\ env' = env
     /\ (Running /\ Cur.kind = "index" /\ Len(heap[ns["vol"]].items) <= SweepNumber)
          => pc'.status = "error" /\ ns'["sweep_number"] = << 176, 0 >>
     /\ pc.status = "error"
          => \/ pc'.status = "closed"
             \/ UNCHANGED << pc, ns, heap, env >>]_vars

\* the run has stopped at line 177 because the volume has fewer than four
\* sweeps; sweep_number, bound on line 176, is still bound
C7_Witness ==
  /\ pc.status = "error"
  /\ Cur.line = 177
  /\ ns["sweep_number"] = << 176, 0 >>
  /\ Len(heap[ns["vol"]].items) <= SweepNumber

(***************************************************************************)
(* Claims about the quality mask and about extract_clutter.                *)
(***************************************************************************)
\* one of the three stated mask conditions holds for the bin
StatedMask(f) ==
  Gt(f.cbb, CbbMax) \/ Eq(f.cmap, CmapClutter) \/ Lt(f.rhohv, RhohvMin)

\* C1 as stated: a bin is masked exactly when CBB > 0.5 or CMAP == 1 or
\* RHOHV < 0.8, whatever the fields hold, missing values included.
C1_MaskIsComplement ==
  maskOut # << >> =>
    \A b \in 1..NBins : (~ maskOut[b].keep) <=> StatedMask(maskIn[b])

\* C1 amended: a bin is masked exactly when CBB > 0.5 or CMAP == 1 or
\* RHOHV < 0.8 or CBB or RHOHV is missing; a kept bin shows its reflectivity
\* and a masked bin shows nothing.
C1_MaskWithMissing ==
  maskOut # << >> =>
    \A b \in 1..NBins :
      /\ (~ maskOut[b].keep)
           <=> \/ StatedMask(maskIn[b])
               \/ maskIn[b].cbb = NaN
               \/ maskIn[b].rhohv = NaN
      /\ maskOut[b].shown = IF maskOut[b].keep THEN maskIn[b].refl ELSE NaN

\* the mask has been evaluated on a bin at the thresholds, which is kept, and
\* on a bin whose RHOHV is missing, which is masked
C1_Witness ==
  /\ maskOut # << >>
  /\ \E b \in 1..NBins :
       /\ maskIn[b].cbb = CbbMax /\ maskIn[b].rhohv = RhohvMin
       /\ maskIn[b].cmap = 0 /\ maskOut[b].keep /\ maskOut[b].shown = 30
  /\ \E b \in 1..NBins :
       /\ maskIn[b].rhohv = NaN /\ maskIn[b].cbb = 0 /\ maskIn[b].cmap = 0
       /\ ~ maskOut[b].keep /\ maskOut[b].shown = NaN

\* what calling the filter once on the whole array amounts to
EagerCalls(given) ==
  { [func |-> "filter_gabella", kwargs |-> GabellaKwargs(Params(given)),
     block |-> Whole(SweepDims)] }

Passed(given, default) == IF given = Omitted THEN default ELSE given

\* C9: extract_clutter hands every parameter to the Gabella filter under its
\* own name, with the defaults wsize=5, thrsnorain=0, tr1=6.0, n_p=6, tr2=1.3,
\* rm_nans=False for what the caller omits; what it returns has the
\* dimensions (azimuth, range); the notebook's call gives tr1=21.0 and n_p=23.
C9_PureWrapper ==
  wrapOut # << >> =>
    /\ wrapOut.kwargs =
         [wsize |-> Passed(wrapIn.given.wsize, 5),
          thrsnorain |-> Passed(wrapIn.given.thrsnorain, 0),
          tr1 |-> Passed(wrapIn.given.tr1, 60),
          n_p |-> Passed(wrapIn.given.n_p, 6),
          tr2 |-> Passed(wrapIn.given.tr2, 13),
          rm_nans |-> Passed(wrapIn.given.rm_nans, 0)]
    /\ \A c \in wrapOut.calls :
         c.func = "filter_gabella" /\ c.kwargs = wrapOut.kwargs
    /\ ~ wrapOut.raised => wrapOut.dims = << "azimuth", "range" >>
    /\ wrapIn.given = NotebookCall
         => /\ wrapOut.kwargs.tr1 = 210 /\ wrapOut.kwargs.n_p = 23
            /\ wrapOut.kwargs.wsize = 5 /\ wrapOut.kwargs.thrsnorain = 0
            /\ wrapOut.kwargs.tr2 = 13 /\ wrapOut.kwargs.rm_nans = 0

\* extract_clutter has returned for a caller that gave tr1 and omitted tr2
C9_Witness ==
  /\ wrapOut # << >>
  /\ ~ wrapOut.raised
  /\ wrapIn.given.tr1 = 210 /\ wrapIn.given.tr2 = Omitted
  /\ wrapOut.kwargs.tr1 = 210 /\ wrapOut.kwargs.tr2 = 13

====
